---- MODULE Spec2Model ----
(***************************************************************************)
(* Nexus-Zero: the approval gate / execution state machine of the executor *)
(* agent (src/mcp-agents/executor-agent/main.py) over the shared store     *)
(* (src/mcp-agents/common/db_utils.py).                                    *)
(*                                                                         *)
(* Every `with get_db_cursor()` block of the source is one committed       *)
(* transaction holding one SQL statement, so each store access is one      *)
(* atomic step of the model and the handlers' steps interleave freely      *)
(* between them.  Calls is the set of tool calls of one behaviour; they    *)
(* are issued in index order and run concurrently or one after the other,  *)
(* as the calls of several agent processes / server threads do.            *)
(***************************************************************************)
EXTENDS Integers, Sequences, FiniteSets, TLC

\* ---------------------------------------------------------------------
\* Bounds of the model
\* ---------------------------------------------------------------------
NumCalls == 2          \* tool calls made over one behaviour
MaxEntries == 3        \* rows the audit_logs table may hold
MaxNow == 31           \* last clock reading, in minutes

\* ---------------------------------------------------------------------
\* Program constants
\* ---------------------------------------------------------------------
APPROVAL_TIMEOUT_MINUTES == 30

ALLOWED_ACTION_TYPES == {"rollback", "scale", "restart", "config_change", "custom"}

\* keys of the ACTION_EXECUTORS dispatch table
ACTION_EXECUTORS == {"rollback", "scale", "restart", "config_change"}

\* ---------------------------------------------------------------------
\* Value spaces
\* ---------------------------------------------------------------------
Calls == 1..NumCalls
Incidents == 1..4
NoIncident == 0                      \* audit_logs.incident_id IS NULL
NullTime == -1                       \* a NULL timestamp
Null == "NULL"                       \* a NULL text / json column
StartNow == APPROVAL_TIMEOUT_MINUTES     \* the clock reading in the initial state

Severities == {"critical", "high", "medium", "low"}
\* action types a caller of execute_emergency_action may name, one of each
\* kind the handler tells apart: an allowed type whose executor reads the
\* details (config_change), an allowed type whose executor does not
\* (restart) and a type that is not allowed (drain)
ActionTypes == {"restart", "config_change", "drain"}
\* shape of an action_details payload: a JSON object, or JSON that is not
\* an object (null, a list), on which details.get raises
DetailShapes == {"object", "nonobject"}
Operators == {"alice"}

VARIABLES
    audit_logs,      \* the audit_logs table: sequence of rows, id = index
    incidents,       \* the incidents table: id -> row
    config_changes,  \* the config_changes table: sequence of rows
    now,             \* the clock (NOW() / utcnow()), minutes
    pc,              \* per call: position inside its handler
    op,              \* per call: tool name and the locals the handler keeps
    pending,         \* per call: rows get_pending_approvals still has to visit
    active,          \* per call: rows get_pending_approvals will return
    returned,        \* the JSON the step just taken returned to its caller, if it returned
    executed,        \* history: per entry id, how many times an executor handler was run for it
    gated,           \* history: ids an approve call moved pending_approval -> executing
    emergency,       \* history: ids execute_emergency_action created
    rejected_ok,     \* history: ids for which reject_action returned success
    swept,           \* history: ids the timeout sweep has written a rejection for
    incident_updates \* history: per entry id, how many times its execution updated the incident

vars == <<audit_logs, incidents, config_changes, now, pc, op, pending, active,
          returned, executed, gated, emergency, rejected_ok, swept,
          incident_updates>>

store == <<audit_logs, incidents, config_changes>>
locals == <<op, pending, active>>
history == <<executed, gated, emergency, rejected_ok, swept, incident_updates>>

EntryIds == 1..MaxEntries
NoOp == [name |-> "none", id |-> 0, by |-> Null, at |-> NullTime]
NoReturn == [name |-> "none", kind |-> "none", status |-> Null]

\* ---------------------------------------------------------------------
\* Store operations (common/db_utils.py)
\* ---------------------------------------------------------------------

\* UPDATE audit_logs SET status, result, error_message, human_approved,
\* approved_by, approved_at, completed_at WHERE id = audit_id: every listed
\* column is assigned on every call, whatever the row's current status.
update_audit_log(logs, audit_id, status, result, error_message, t) ==
    IF audit_id \in DOMAIN logs
    THEN [logs EXCEPT ![audit_id] =
            [@ EXCEPT !.status = status,
                      !.result = result,
                      !.error_message = error_message,
                      !.human_approved = FALSE,
                      !.approved_by = Null,
                      !.approved_at = NullTime,
                      !.completed_at = t]]
    ELSE logs

\* INSERT INTO audit_logs (...) RETURNING id ...
create_audit_log(logs, agent_name, action_type, action_details, incident_id, status, t) ==
    Append(logs, [incident_id |-> incident_id,
                  agent_name |-> agent_name,
                  action_type |-> action_type,
                  action_details |-> action_details,
                  status |-> status,
                  result |-> Null,
                  error_message |-> Null,
                  human_approved |-> FALSE,
                  approved_by |-> Null,
                  approved_at |-> NullTime,
                  completed_at |-> NullTime,
                  created_at |-> t])

\* update_incident(incident_id, status=..., resolution_notes=...): only the
\* keys in allowed_fields reach the UPDATE, so resolution_notes is dropped
\* and the statement sets status alone.
update_incident(incs, incident_id, status) ==
    IF incident_id \in DOMAIN incs
    THEN [incs EXCEPT ![incident_id].status = status]
    ELSE incs

\* INSERT INTO config_changes (...)
record_config_change(changes, service_name, changed_by) ==
    Append(changes, [service_name |-> service_name,
                     change_type |-> "env_var",
                     changed_by |-> changed_by])

\* ---------------------------------------------------------------------
\* Executor helpers (executor-agent/main.py)
\* ---------------------------------------------------------------------

\* audit_logs al JOIN incidents i ON i.id = al.incident_id WHERE al.id = id
JoinedRow(id) ==
    /\ id \in DOMAIN audit_logs
    /\ audit_logs[id].incident_id \in DOMAIN incidents

\* _get_pending_actions with a LEFT JOIN: rows without an incident are
\* returned too
_get_pending_actions_left_join(incident_id) ==
    {id \in DOMAIN audit_logs :
        /\ audit_logs[id].status = "pending_approval"
        /\ (incident_id # NoIncident => audit_logs[id].incident_id = incident_id)}

\* _get_pending_actions(incident_id): ids of the rows the SELECT returns
_get_pending_actions(incident_id) ==
    {id \in DOMAIN audit_logs :
        /\ JoinedRow(id)
        /\ audit_logs[id].status = "pending_approval"
        /\ (incident_id # NoIncident => audit_logs[id].incident_id = incident_id)}

\* The handlers _simulate_rollback, _simulate_scale and
\* _simulate_config_change call details.get(...), which raises when the
\* payload is not a JSON object; _simulate_restart and the custom branch
\* never touch the payload.
ExecutorRaises(action_type, details) ==
    /\ details = "nonobject"
    /\ action_type \in {"rollback", "scale", "config_change"}

\* the result dict an executor returns
ExecutorResult(action_type) ==
    IF action_type \in ACTION_EXECUTORS THEN "simulated" ELSE "custom"

\* ---------------------------------------------------------------------
\* Initial state: the store as the pipeline leaves it before the gate is
\* used.  There is one open incident of each severity.  Two proposals wait
\* in pending_approval, the first created StartNow minutes ago and the
\* second a minute later: a config change with a well-formed payload, and
\* a rollback whose payload is not a JSON object and which may have no
\* linked incident (incident_id is nullable).
\* ---------------------------------------------------------------------
SeverityOf(i) ==
    CASE i = 1 -> "critical"
      [] i = 2 -> "high"
      [] i = 3 -> "medium"
      [] OTHER -> "low"

PendingRow(incident_id, action_type, action_details, created_at) ==
    [incident_id |-> incident_id,
     agent_name |-> "mediator",
     action_type |-> action_type,
     action_details |-> action_details,
     status |-> "pending_approval",
     result |-> Null,
     error_message |-> Null,
     human_approved |-> FALSE,
     approved_by |-> Null,
     approved_at |-> NullTime,
     completed_at |-> NullTime,
     created_at |-> created_at]

Init ==
    /\ \E i2 \in {2, NoIncident} :
          audit_logs = << PendingRow(1, "config_change", "object", 0),
                          PendingRow(i2, "rollback", "nonobject", 1) >>
    /\ incidents = [i \in Incidents |->
                      [severity |-> SeverityOf(i),
                       status |-> "open",
                       affected_service |-> IF i = 1 THEN "checkout" ELSE "orders"]]
    /\ config_changes = << >>
    /\ now = StartNow
    /\ pc = [c \in Calls |-> "idle"]
    /\ op = [c \in Calls |-> NoOp]
    /\ pending = [c \in Calls |-> {}]
    /\ active = [c \in Calls |-> {}]
    /\ returned = NoReturn
    /\ executed = [e \in EntryIds |-> 0]
    /\ gated = {}
    /\ emergency = {}
    /\ rejected_ok = {}
    /\ swept = {}
    /\ incident_updates = [e \in EntryIds |-> 0]

\* call c has not been issued yet, and every call before it has
Idle(c) ==
    /\ pc[c] = "idle"
    /\ \A d \in Calls : d < c => pc[d] # "idle"

\* the tool returns: the call ends with the JSON it hands back
Return(c, name, kind, status) ==
    /\ returned' = [name |-> name, kind |-> kind, status |-> status]
    /\ pc' = [pc EXCEPT ![c] = "done"]
    /\ op' = [op EXCEPT ![c] = NoOp]
    /\ pending' = [pending EXCEPT ![c] = {}]
    /\ active' = [active EXCEPT ![c] = {}]

\* the handler moves on to its next statement
Goto(c, label) ==
    /\ pc' = [pc EXCEPT ![c] = label]
    /\ returned' = NoReturn
    /\ UNCHANGED <<op, pending, active>>

\* a statement raises: the handler moves on to its except block with the
\* exception it caught
Raise(c, label, exception) ==
    /\ pc' = [pc EXCEPT ![c] = label]
    /\ op' = [op EXCEPT ![c].by = exception]
    /\ returned' = NoReturn
    /\ UNCHANGED <<pending, active>>

\* a tool call is taken up: its arguments become the handler's locals
Call(c, name, id, by, label) ==
    /\ pc' = [pc EXCEPT ![c] = label]
    /\ op' = [op EXCEPT ![c] = [name |-> name, id |-> id, by |-> by, at |-> NullTime]]
    /\ returned' = NoReturn
    /\ UNCHANGED <<pending, active>>

\* ---------------------------------------------------------------------
\* approve_action(audit_log_id, approved_by)
\* ---------------------------------------------------------------------

\* approve_action_select that refuses an entry older than the approval
\* timeout
approve_action_select_checking_age(c, audit_log_id, approved_by) ==
    /\ Idle(c)
    /\ IF ~JoinedRow(audit_log_id)
       THEN Return(c, "approve_action", "not_found", Null)
       ELSE IF \/ audit_logs[audit_log_id].status # "pending_approval"
               \/ now - audit_logs[audit_log_id].created_at > APPROVAL_TIMEOUT_MINUTES
            THEN Return(c, "approve_action", "invalid_state", audit_logs[audit_log_id].status)
            ELSE Call(c, "approve_action", audit_log_id, approved_by, "approve_mark")
    /\ UNCHANGED <<store, now, history>>

\* approve_action_select with a status check that lets a failed entry be
\* approved again
approve_action_select_retry_failed(c, audit_log_id, approved_by) ==
    /\ Idle(c)
    /\ IF ~JoinedRow(audit_log_id)
       THEN Return(c, "approve_action", "not_found", Null)
       ELSE IF audit_logs[audit_log_id].status \notin {"pending_approval", "failed"}
            THEN Return(c, "approve_action", "invalid_state", audit_logs[audit_log_id].status)
            ELSE Call(c, "approve_action", audit_log_id, approved_by, "approve_mark")
    /\ UNCHANGED <<store, now, history>>

\* lines 236-263: the SELECT ... JOIN, the not-found return and the status
\* check.  Nothing is written here.
approve_action_select(c, audit_log_id, approved_by) ==
    /\ Idle(c)
    /\ IF ~JoinedRow(audit_log_id)
       THEN Return(c, "approve_action", "not_found", Null)
       ELSE IF audit_logs[audit_log_id].status # "pending_approval"
            THEN Return(c, "approve_action", "invalid_state", audit_logs[audit_log_id].status)
            ELSE Call(c, "approve_action", audit_log_id, approved_by, "approve_mark")
    /\ UNCHANGED <<store, now, history>>

\* line 266: update_audit_log(audit_log_id, status="executing"), issued
\* without looking at the status again
approve_action_mark_executing(c) ==
    /\ pc[c] = "approve_mark"
    /\ audit_logs' = update_audit_log(audit_logs, op[c].id, "executing", Null, Null, now)
    /\ gated' = IF audit_logs[op[c].id].status = "pending_approval"
                THEN gated \cup {op[c].id} ELSE gated
    /\ Goto(c, "approve_execute")
    /\ UNCHANGED <<incidents, config_changes, now, executed, emergency,
                   rejected_ok, swept, incident_updates>>

\* lines 268-291: parse the details and call the executor handler; an
\* exception it raises is caught at line 327
approve_action_execute(c) ==
    /\ pc[c] = "approve_execute"
    /\ LET row == audit_logs[op[c].id] IN
       /\ executed' = [executed EXCEPT ![op[c].id] = @ + 1]
       /\ IF ExecutorRaises(row.action_type, row.action_details)
          THEN Goto(c, "approve_except")
          ELSE Goto(c, IF row.action_type = "config_change"
                       THEN "approve_config" ELSE "approve_complete")
    /\ UNCHANGED <<store, now, gated, emergency, rejected_ok, swept,
                   incident_updates>>

\* lines 294-301: record_config_change for a config_change action
approve_action_record_config(c) ==
    /\ pc[c] = "approve_config"
    /\ config_changes' = record_config_change(config_changes,
            incidents[audit_logs[op[c].id].incident_id].affected_service, op[c].by)
    /\ Goto(c, "approve_complete")
    /\ UNCHANGED <<audit_logs, incidents, now, history>>

\* lines 304-308: update_audit_log(audit_log_id, status="completed", result=result)
approve_action_complete(c) ==
    /\ pc[c] = "approve_complete"
    /\ audit_logs' = update_audit_log(audit_logs, op[c].id, "completed",
                                      ExecutorResult(audit_logs[op[c].id].action_type), Null, now)
    /\ Goto(c, "approve_incident")
    /\ UNCHANGED <<incidents, config_changes, now, history>>

\* lines 311-325: update_incident(incident_id, status="mitigated") and the
\* success return
approve_action_update_incident(c) ==
    /\ pc[c] = "approve_incident"
    /\ incidents' = update_incident(incidents, audit_logs[op[c].id].incident_id, "mitigated")
    /\ incident_updates' = [incident_updates EXCEPT ![op[c].id] = @ + 1]
    /\ Return(c, "approve_action", "executed", Null)
    /\ UNCHANGED <<audit_logs, config_changes, now, executed, gated, emergency,
                   rejected_ok, swept>>

\* approve_action_except that also puts the linked incident back under
\* investigation
approve_action_except_touching_incident(c) ==
    /\ pc[c] = "approve_except"
    /\ audit_logs' = update_audit_log(audit_logs, op[c].id, "failed", "error", Null, now)
    /\ incidents' = IF op[c].id \in DOMAIN audit_logs
                    THEN update_incident(incidents, audit_logs[op[c].id].incident_id,
                                         "investigating")
                    ELSE incidents
    /\ Return(c, "approve_action", "error", Null)
    /\ UNCHANGED <<config_changes, now, history>>

\* lines 327-333: the except branch marks the entry failed and returns the error
approve_action_except(c) ==
    /\ pc[c] = "approve_except"
    /\ audit_logs' = update_audit_log(audit_logs, op[c].id, "failed", "error", Null, now)
    /\ Return(c, "approve_action", "error", Null)
    /\ UNCHANGED <<incidents, config_changes, now, history>>

approve_action(c) ==
    \/ \E id \in EntryIds, by \in Operators : approve_action_select(c, id, by)
    \/ approve_action_mark_executing(c)
    \/ approve_action_execute(c)
    \/ approve_action_record_config(c)
    \/ approve_action_complete(c)
    \/ approve_action_update_incident(c)
    \/ approve_action_except(c)

\* ---------------------------------------------------------------------
\* reject_action(audit_log_id, reason)
\* ---------------------------------------------------------------------

\* lines 349-365: SELECT id, status FROM audit_logs (no join) and the checks
reject_action_select(c, audit_log_id) ==
    /\ Idle(c)
    /\ IF audit_log_id \notin DOMAIN audit_logs
       THEN Return(c, "reject_action", "not_found", Null)
       ELSE IF audit_logs[audit_log_id].status # "pending_approval"
            THEN Return(c, "reject_action", "invalid_state", audit_logs[audit_log_id].status)
            ELSE Call(c, "reject_action", audit_log_id, Null, "reject_write")
    /\ UNCHANGED <<store, now, history>>

OperatorReason == "reason: Rejected by operator"

\* reject_action_write that also closes the linked incident
reject_action_write_closing_incident(c) ==
    /\ pc[c] = "reject_write"
    /\ audit_logs' = update_audit_log(audit_logs, op[c].id, "rejected",
                                      OperatorReason, Null, now)
    /\ incidents' = update_incident(incidents, audit_logs[op[c].id].incident_id, "closed")
    /\ rejected_ok' = rejected_ok \cup {op[c].id}
    /\ Return(c, "reject_action", "rejected", Null)
    /\ UNCHANGED <<config_changes, now, executed, gated, emergency,
                   swept, incident_updates>>

\* lines 367-377: update_audit_log(status="rejected", result={reason, ...})
reject_action_write(c) ==
    /\ pc[c] = "reject_write"
    /\ audit_logs' = update_audit_log(audit_logs, op[c].id, "rejected",
                                      OperatorReason, Null, now)
    /\ rejected_ok' = rejected_ok \cup {op[c].id}
    /\ Return(c, "reject_action", "rejected", Null)
    /\ UNCHANGED <<incidents, config_changes, now, executed, gated, emergency,
                   swept, incident_updates>>

reject_action(c) ==
    \/ \E id \in EntryIds : reject_action_select(c, id)
    \/ reject_action_write(c)

\* ---------------------------------------------------------------------
\* get_pending_approvals(incident_id): the listing and its timeout sweep
\* ---------------------------------------------------------------------

TimeoutReason == "reason: auto-rejected: approval timeout exceeded"

\* lines 175-185: _get_pending_actions, the empty-list return, utcnow()
get_pending_approvals_select(c, incident_id) ==
    /\ Idle(c)
    /\ IF _get_pending_actions(incident_id) = {}
       THEN Return(c, "get_pending_approvals", "listed", Null)
       ELSE /\ pc' = [pc EXCEPT ![c] = "list_loop"]
            /\ op' = [op EXCEPT ![c] = [name |-> "get_pending_approvals",
                                        id |-> incident_id, by |-> Null, at |-> now]]
            /\ pending' = [pending EXCEPT ![c] = _get_pending_actions(incident_id)]
            /\ returned' = NoReturn
            /\ UNCHANGED active
    /\ UNCHANGED <<store, now, history>>

\* an expiry test that also rejects an entry aged exactly the timeout
Expired_at_timeout(age_minutes) == age_minutes >= APPROVAL_TIMEOUT_MINUTES

\* line 193: if age_minutes > APPROVAL_TIMEOUT_MINUTES
Expired(age_minutes) == age_minutes > APPROVAL_TIMEOUT_MINUTES

\* lines 187-212: one iteration of the loop over the rows read above, in
\* created_at order; the last iteration returns the active list
get_pending_approvals_visit(c) ==
    /\ pc[c] = "list_loop"
    /\ \E id \in pending[c] :
        /\ \A other \in pending[c] :
              audit_logs[id].created_at <= audit_logs[other].created_at
        /\ LET age_minutes == op[c].at - audit_logs[id].created_at
               expired == Expired(age_minutes)
               act == IF expired THEN active[c] ELSE active[c] \cup {id}
           IN /\ IF expired
                 THEN /\ audit_logs' = update_audit_log(audit_logs, id, "rejected",
                                                        TimeoutReason, Null, now)
                      /\ swept' = swept \cup {id}
                 ELSE UNCHANGED <<audit_logs, swept>>
              /\ IF pending[c] = {id}
                 THEN Return(c, "get_pending_approvals", "listed", Null)
                 ELSE /\ pending' = [pending EXCEPT ![c] = @ \ {id}]
                      /\ active' = [active EXCEPT ![c] = act]
                      /\ returned' = NoReturn
                      /\ UNCHANGED <<pc, op>>
    /\ UNCHANGED <<incidents, config_changes, now, executed, gated, emergency,
                   rejected_ok, incident_updates>>

get_pending_approvals(c) ==
    \/ \E i \in Incidents \cup {NoIncident} : get_pending_approvals_select(c, i)
    \/ get_pending_approvals_visit(c)

\* ---------------------------------------------------------------------
\* execute_emergency_action(incident_id, action_type, service_name,
\*                          action_details, operator)
\* ---------------------------------------------------------------------

\* a severity test that also lets high-severity incidents through
SeverityAllowsEmergency_or_high(severity) == severity \in {"critical", "high"}

\* the severity test of line 426
SeverityAllowsEmergency(severity) == severity = "critical"

\* lines 409-445: the action-type check, the incident SELECT, the severity
\* check, json.loads(action_details) and, when all pass, the INSERT of the
\* entry in status executing.  The checks read only the call's arguments
\* and the incident's severity, which no statement of the program writes,
\* so the INSERT is taken in the same step as the checks.
execute_emergency_action_create(c, incident_id, action_type, details) ==
    /\ Idle(c)
    /\ IF action_type \notin ALLOWED_ACTION_TYPES
       THEN /\ Return(c, "execute_emergency_action", "unknown_action_type", Null)
            /\ UNCHANGED <<audit_logs, emergency>>
       ELSE IF incident_id \notin DOMAIN incidents
       THEN /\ Return(c, "execute_emergency_action", "not_found", Null)
            /\ UNCHANGED <<audit_logs, emergency>>
       ELSE IF ~SeverityAllowsEmergency(incidents[incident_id].severity)
       THEN /\ Return(c, "execute_emergency_action", "policy_violation", incidents[incident_id].severity)
            /\ UNCHANGED <<audit_logs, emergency>>
       ELSE IF details = "invalid"
       THEN /\ Return(c, "execute_emergency_action", "error", Null)
            /\ UNCHANGED <<audit_logs, emergency>>
       ELSE /\ Len(audit_logs) < MaxEntries
            /\ audit_logs' = create_audit_log(audit_logs, "executor-agent", action_type,
                                              details, incident_id, "executing", now)
            /\ emergency' = emergency \cup {Len(audit_logs) + 1}
            /\ Call(c, "execute_emergency_action", Len(audit_logs) + 1, Null,
                    "emergency_execute")
    /\ UNCHANGED <<incidents, config_changes, now, executed, gated, rejected_ok,
                   swept, incident_updates>>

\* lines 448-462: run the handler; an exception goes to line 484, which
\* returns the error and writes nothing
execute_emergency_action_execute(c) ==
    /\ pc[c] = "emergency_execute"
    /\ LET row == audit_logs[op[c].id] IN
       /\ executed' = [executed EXCEPT ![op[c].id] = @ + 1]
       /\ IF ExecutorRaises(row.action_type, row.action_details)
          THEN Return(c, "execute_emergency_action", "error", Null)
          ELSE Goto(c, "emergency_complete")
    /\ UNCHANGED <<store, now, gated, emergency, rejected_ok, swept,
                   incident_updates>>

\* line 465: update_audit_log(audit_id, status="completed", result=result)
execute_emergency_action_complete(c) ==
    /\ pc[c] = "emergency_complete"
    /\ audit_logs' = update_audit_log(audit_logs, op[c].id, "completed",
                                      "emergency", Null, now)
    /\ Goto(c, "emergency_incident")
    /\ UNCHANGED <<incidents, config_changes, now, history>>

\* lines 468-482: update_incident(incident_id, status="mitigated") and return
execute_emergency_action_update_incident(c) ==
    /\ pc[c] = "emergency_incident"
    /\ LET row == audit_logs[op[c].id] IN
       /\ incidents' = update_incident(incidents, row.incident_id, "mitigated")
       /\ incident_updates' = [incident_updates EXCEPT ![op[c].id] = @ + 1]
       /\ Return(c, "execute_emergency_action", "emergency_executed", Null)
    /\ UNCHANGED <<audit_logs, config_changes, now, executed, gated, emergency,
                   rejected_ok, swept>>

EmergencyIncidentArgs == Incidents \cup {5}
EmergencyDetailArgs == DetailShapes \cup {"invalid"}

execute_emergency_action(c) ==
    \/ \E i \in EmergencyIncidentArgs, t \in ActionTypes, d \in EmergencyDetailArgs :
          execute_emergency_action_create(c, i, t, d)
    \/ execute_emergency_action_execute(c)
    \/ execute_emergency_action_complete(c)
    \/ execute_emergency_action_update_incident(c)

\* ---------------------------------------------------------------------
\* The clock
\* ---------------------------------------------------------------------
Tick ==
    /\ now < MaxNow
    /\ now' = now + 1
    /\ returned' = NoReturn
    /\ UNCHANGED <<store, pc, locals, history>>

Next ==
    \/ \E c \in Calls : approve_action(c)
    \/ \E c \in Calls : reject_action(c)
    \/ \E c \in Calls : get_pending_approvals(c)
    \/ \E c \in Calls : execute_emergency_action(c)
    \/ Tick

Spec == Init /\ [][Next]_vars

TypeOK ==
    /\ now \in StartNow..MaxNow
    /\ Len(audit_logs) <= MaxEntries
    /\ \A id \in DOMAIN audit_logs :
         audit_logs[id].status \in
            {"pending_approval", "executing", "completed", "rejected", "failed"}
    /\ \A i \in Incidents : incidents[i].status \in {"open", "mitigated"}

\* =====================================================================
\* Claims
\* =====================================================================

TerminalStatuses == {"completed", "rejected", "failed"}
NotPendingStatuses == {"executing", "completed", "rejected", "failed"}

AllowedEdges ==
    { <<"pending_approval", "executing">>, <<"pending_approval", "rejected">>,
      <<"executing", "completed">>, <<"executing", "failed">> }

ExecutingTools == {"approve_action", "execute_emergency_action"}

MentionsTimeout(text) == text = TimeoutReason

Visited(c) == IF pc'[c] = "done" THEN pending[c] ELSE pending[c] \ pending'[c]

approve_action_select_error(c, audit_log_id, approved_by) ==
    /\ Idle(c)
    /\ Call(c, "approve_action", audit_log_id, approved_by, "approve_except")
    /\ UNCHANGED <<store, now, history>>

\* approve_action, lines 266, 295, 304, 311: update_audit_log,
\* record_config_change or update_incident raises and control goes to 327
approve_action_store_error(c) ==
    /\ pc[c] \in {"approve_mark", "approve_config", "approve_complete", "approve_incident"}
    /\ Goto(c, "approve_except")
    /\ UNCHANGED <<store, now, history>>

\* approve_action, lines 329-333: the except branch's own update raises,
\* is swallowed by `except Exception: pass`, and the error is returned
approve_action_except_error(c) ==
    /\ pc[c] = "approve_except"
    /\ Return(c, "approve_action", "error", Null)
    /\ UNCHANGED <<store, now, history>>

\* reject_action, lines 349-354 and 367-371: the SELECT or the update
\* raises; the except branch of line 379 returns the error
reject_action_store_error(c) ==
    /\ Idle(c) \/ pc[c] = "reject_write"
    /\ Return(c, "reject_action", "error", Null)
    /\ UNCHANGED <<store, now, history>>

\* execute_emergency_action, lines 415-420, 439, 465, 468: the incident
\* SELECT, create_audit_log, update_audit_log or update_incident raises;
\* the except branch of line 484 returns the error and writes nothing
execute_emergency_action_store_error(c) ==
    /\ Idle(c) \/ pc[c] \in {"emergency_complete", "emergency_incident"}
    /\ Return(c, "execute_emergency_action", "error", Null)
    /\ UNCHANGED <<store, now, history>>

StoreError(c) ==
    \/ \E id \in EntryIds, by \in Operators : approve_action_select_error(c, id, by)
    \/ approve_action_store_error(c)
    \/ approve_action_except_error(c)
    \/ reject_action_store_error(c)
    \/ execute_emergency_action_store_error(c)

FaultNext ==
    \/ \E c \in Calls : approve_action(c)
    \/ \E c \in Calls : reject_action(c)
    \/ \E c \in Calls : execute_emergency_action(c)
    \/ \E c \in Calls : StoreError(c)

FaultSpec == Init /\ [][FaultNext]_vars

\* a step of an approve call, failing statements included
ApproveStep(c) ==
    \/ approve_action(c)
    \/ \E id \in EntryIds, by \in Operators : approve_action_select_error(c, id, by)
    \/ approve_action_store_error(c)
    \/ approve_action_except_error(c)

\* C15: an approve call that ends with the entry in failed has not touched
\* the linked incident: the only step of approve that changes an incident
\* is the one that returns success, and the except branch, which writes
\* failed, leaves every incident exactly as it was, whichever statement
\* (executor or store) had failed.
C15_FailedApproveLeavesIncident ==
    [][\A c \in Calls :
          ApproveStep(c) =>
             /\ incidents' # incidents
                   => returned' = [name |-> "approve_action", kind |-> "executed",
                                   status |-> Null]
             /\ pc[c] = "approve_except"
                   => /\ incidents' = incidents
                      /\ returned'.kind = "error"
                      /\ \A id \in DOMAIN audit_logs :
                            audit_logs'[id] # audit_logs[id]
                               => /\ id = op[c].id
                                  /\ audit_logs'[id].status = "failed"]_vars

\* an approve call whose executor raised has just returned its error: the
\* entry went through the gate, is failed, and its incident is still open
\* and was never updated on its behalf
C15_Witness ==
    /\ returned = [name |-> "approve_action", kind |-> "error", status |-> Null]
    /\ \E id \in gated :
          /\ audit_logs[id].status = "failed"
          /\ executed[id] > 0
          /\ incident_updates[id] = 0
          /\ incidents[audit_logs[id].incident_id].status = "open"

\* =====================================================================
\* The agents around the gate: the tools of the sentinel, the detective
\* and the mediator that write incidents and audit entries, and the
\* dashboard's cleanup.  PipelineSpec runs them against approve_action and
\* execute_emergency_action.
\* =====================================================================

\* create_audit_log(..., status="pending"): the default of the status
\* parameter (db_utils.py line 308)
DefaultStatus == "pending"

RetentionMinutes == 120          \* INTERVAL '2 hours' of the cleanup
\* incidents.created_at: incidents 2 and 4 were opened before the
\* retention window of the initial clock reading, 1 and 3 inside it
IncidentCreatedAt(i) == IF i \in {2, 4} THEN 0 - 100 ELSE 0 - 10

\* incident ids the agents' tools are called with; 5 is not stored
PipelineIncidentArgs == {1, 2, 5}

\* ---- sentinel-agent: acknowledge_incident(incident_id) ----------------

\* line 307: update_incident(incident_id, status="investigating"), and the
\* not-found return when the UPDATE matched no row
acknowledge_incident_update(c, incident_id) ==
    /\ Idle(c)
    /\ IF incident_id \notin DOMAIN incidents
       THEN /\ Return(c, "acknowledge_incident", "not_found", Null)
            /\ UNCHANGED incidents
       ELSE /\ incidents' = update_incident(incidents, incident_id, "investigating")
            /\ Call(c, "acknowledge_incident", incident_id, Null, "acknowledge_audit")
    /\ UNCHANGED <<audit_logs, config_changes, now, history>>

\* lines 311-324: create_audit_log(..., status="success") and the return
acknowledge_incident_audit(c) ==
    /\ pc[c] = "acknowledge_audit"
    /\ Len(audit_logs) < MaxEntries
    /\ audit_logs' = create_audit_log(audit_logs, "sentinel", "acknowledge_incident",
                                      "object", op[c].id, "success", now)
    /\ Return(c, "acknowledge_incident", "acknowledged", Null)
    /\ UNCHANGED <<incidents, config_changes, now, history>>

acknowledge_incident(c) ==
    \/ \E i \in PipelineIncidentArgs : acknowledge_incident_update(c, i)
    \/ acknowledge_incident_audit(c)

\* ---- detective-agent: investigate_root_cause(incident_id) -------------

\* lines 339-344: create_audit_log(agent_name="detective", ...,
\* incident_id=incident_id), status left to its default
investigate_root_cause_create(c, incident_id) ==
    /\ Idle(c)
    /\ Len(audit_logs) < MaxEntries
    /\ audit_logs' = create_audit_log(audit_logs, "detective", "investigate_root_cause",
                                      "object", incident_id, DefaultStatus, now)
    /\ Call(c, "investigate_root_cause", Len(audit_logs) + 1, Null, "investigate_gather")
    /\ UNCHANGED <<incidents, config_changes, now, history>>

\* lines 347-425: get_incident and the not-found return; then the log
\* query, the commit query and the Gemini call, any of which may raise
investigate_root_cause_gather(c) ==
    /\ pc[c] = "investigate_gather"
    /\ IF audit_logs[op[c].id].incident_id \notin DOMAIN incidents
       THEN Return(c, "investigate_root_cause", "not_found", Null)
       ELSE \E raised \in BOOLEAN :
               Goto(c, IF raised THEN "investigate_except" ELSE "investigate_update")
    /\ UNCHANGED <<store, now, history>>

\* lines 427-437: update_incident(incident_id, root_cause=...,
\* confidence_score=..., status="investigating")
investigate_root_cause_update_incident(c) ==
    /\ pc[c] = "investigate_update"
    /\ incidents' = update_incident(incidents, audit_logs[op[c].id].incident_id,
                                    "investigating")
    /\ Goto(c, "investigate_success")
    /\ UNCHANGED <<audit_logs, config_changes, now, history>>

\* lines 456-458: update_audit_log(audit["id"], status="success", result=result)
investigate_root_cause_success(c) ==
    /\ pc[c] = "investigate_success"
    /\ audit_logs' = update_audit_log(audit_logs, op[c].id, "success",
                                      "investigation", Null, now)
    /\ Return(c, "investigate_root_cause", "investigation_complete", Null)
    /\ UNCHANGED <<incidents, config_changes, now, history>>

\* lines 460-464: update_audit_log(audit["id"], status="failed",
\* error_message=error_msg)
investigate_root_cause_except(c) ==
    /\ pc[c] = "investigate_except"
    /\ audit_logs' = update_audit_log(audit_logs, op[c].id, "failed", Null,
                                      "Root cause investigation failed", now)
    /\ Return(c, "investigate_root_cause", "error", Null)
    /\ UNCHANGED <<incidents, config_changes, now, history>>

investigate_root_cause(c) ==
    \/ \E i \in PipelineIncidentArgs : investigate_root_cause_create(c, i)
    \/ investigate_root_cause_gather(c)
    \/ investigate_root_cause_update_incident(c)
    \/ investigate_root_cause_success(c)
    \/ investigate_root_cause_except(c)

\* ---- mediator-agent: produce_recommendation(incident_id, ...) ---------

\* lines 324-332: create_audit_log(agent_name="mediator",
\* action_type="produce_recommendation", ..., incident_id=incident_id),
\* status left to its default
produce_recommendation_create(c, incident_id) ==
    /\ Idle(c)
    /\ Len(audit_logs) < MaxEntries
    /\ audit_logs' = create_audit_log(audit_logs, "mediator", "produce_recommendation",
                                      "object", incident_id, DefaultStatus, now)
    /\ Call(c, "produce_recommendation", Len(audit_logs) + 1, Null, "recommend_assess")
    /\ UNCHANGED <<incidents, config_changes, now, history>>

\* lines 335-452: get_incident and the not-found return; then json.loads,
\* the store reads, check_guardrails and the Gemini call, any of which
\* may raise
produce_recommendation_assess(c) ==
    /\ pc[c] = "recommend_assess"
    /\ IF audit_logs[op[c].id].incident_id \notin DOMAIN incidents
       THEN Return(c, "produce_recommendation", "not_found", Null)
       ELSE \E raised \in BOOLEAN :
               Goto(c, IF raised THEN "recommend_except" ELSE "recommend_success")
    /\ UNCHANGED <<store, now, history>>

\* lines 454-456: update_audit_log(audit["id"], status="success", result=result)
produce_recommendation_success(c) ==
    /\ pc[c] = "recommend_success"
    /\ audit_logs' = update_audit_log(audit_logs, op[c].id, "success",
                                      "recommendation", Null, now)
    /\ Return(c, "produce_recommendation", "recommendation_ready", Null)
    /\ UNCHANGED <<incidents, config_changes, now, history>>

\* lines 458-462: update_audit_log(audit["id"], status="failed",
\* error_message=error_msg); the error returned names the exception
produce_recommendation_except(c) ==
    /\ pc[c] = "recommend_except"
    /\ audit_logs' = update_audit_log(audit_logs, op[c].id, "failed", Null,
                                      "Recommendation production failed", now)
    /\ Return(c, "produce_recommendation", "error", op[c].by)
    /\ UNCHANGED <<incidents, config_changes, now, history>>

produce_recommendation(c) ==
    \/ \E i \in PipelineIncidentArgs : produce_recommendation_create(c, i)
    \/ produce_recommendation_assess(c)
    \/ produce_recommendation_success(c)
    \/ produce_recommendation_except(c)

\* ---- web/app.py: cleanup_stale_data() ---------------------------------

\* DELETE FROM audit_logs WHERE status = 'pending' AND incident_id IS NULL.
\* A deleted row keeps its slot, with status "deleted", so that the ids of
\* the other rows stay what they were.
DeleteOrphanPending(logs) ==
    [id \in DOMAIN logs |->
        IF logs[id].status = "pending" /\ logs[id].incident_id = NoIncident
        THEN [logs[id] EXCEPT !.status = "deleted"]
        ELSE logs[id]]

\* UPDATE incidents SET status = 'closed' WHERE status IN ('open',
\* 'investigating') AND created_at < NOW() - INTERVAL '2 hours'
CloseStaleIncidents(incs, t) ==
    [i \in DOMAIN incs |->
        IF /\ incs[i].status \in {"open", "investigating"}
           /\ IncidentCreatedAt(i) < t - RetentionMinutes
        THEN [incs[i] EXCEPT !.status = "closed"]
        ELSE incs[i]]

\* lines 1142-1144: the first statement of the cleanup
cleanup_stale_data_delete(c) ==
    /\ Idle(c)
    /\ audit_logs' = DeleteOrphanPending(audit_logs)
    /\ Call(c, "cleanup_stale_data", 0, Null, "cleanup_close")
    /\ UNCHANGED <<incidents, config_changes, now, history>>

\* lines 1146-1153: the second statement and the return
cleanup_stale_data_close(c) ==
    /\ pc[c] = "cleanup_close"
    /\ incidents' = CloseStaleIncidents(incidents, now)
    /\ Return(c, "cleanup_stale_data", "cleaned", Null)
    /\ UNCHANGED <<audit_logs, config_changes, now, history>>

cleanup_stale_data(c) ==
    \/ cleanup_stale_data_delete(c)
    \/ cleanup_stale_data_close(c)

PipelineNext ==
    \/ \E c \in Calls : acknowledge_incident(c)
    \/ \E c \in Calls : investigate_root_cause(c)
    \/ \E c \in Calls : produce_recommendation(c)
    \/ \E c \in Calls : cleanup_stale_data(c)
    \/ \E c \in Calls : approve_action(c)
    \/ \E c \in Calls : execute_emergency_action(c)

PipelineSpec == Init /\ [][PipelineNext]_vars

\* C17: an audit entry created without an explicit status (agent, action
\* type, details, optional incident id) starts in pending_approval, the
\* status from which approve and reject are allowed.
C17_NewEntryIsPendingApproval ==
    [][\A c \in Calls, i \in PipelineIncidentArgs :
          (produce_recommendation_create(c, i) \/ investigate_root_cause_create(c, i))
             => audit_logs'[Len(audit_logs')].status = "pending_approval"]_vars

\* position of an incident status on open -> investigating ->
\* mitigated|resolved -> closed
StatusRank(status) ==
    CASE status = "open" -> 0
      [] status = "investigating" -> 1
      [] status \in {"mitigated", "resolved"} -> 2
      [] status = "closed" -> 3

\* C19: under acknowledge, investigate, approve, execute_emergency_action
\* and cleanup an incident's status only moves forward along open ->
\* investigating -> mitigated|resolved -> closed; no step takes it back.
C19_IncidentStatusMovesForward ==
    [][\A i \in Incidents :
          StatusRank(incidents'[i].status) >= StatusRank(incidents[i].status)]_vars

\* =====================================================================
\* mediator-agent: check_guardrails(action_type, service_name,
\* action_details).  The service's stored data (blast radius, direct
\* dependents, rollback_safety_score) and the clock's hour are read by the
\* handler while it evaluates; they are the inputs of the evaluation next
\* to the call's arguments.
\* =====================================================================
MaxBlast == 6          \* largest blast radius a stored service has
MaxScale == 4          \* largest instance count in a scale request

GUARDRAILS ==
    [max_blast_radius |-> 5,
     critical_services_require_approval |-> TRUE,
     rollback_always_allowed |-> TRUE,
     max_scale_factor |-> 3,
     blocked_actions_in_peak_hours |-> {"restart", "scale_down"},
     peak_hours_utc |-> <<14, 22>>]

Absent == 0 - 1                      \* a key the details object does not have
NullScore == 0 - 1                   \* services.rollback_safety_score IS NULL
\* rollback_safety_score, in hundredths
Scores == {NullScore, 0, 30, 50, 90}
\* datetime.now(timezone.utc).hour, around the peak window's two ends
Hours == {13, 14, 21, 22}
\* the action types the mediator's docstrings and GUARDRAILS name, and
\* "scale", the type the executor runs for scaling (ACTION_EXECUTORS)
GuardrailActionTypes ==
    {"rollback", "scale_up", "scale_down", "restart", "config_change", "scale"}

\* what the store holds for the service named in the call; a service that
\* is not stored has no row, no dependents and an empty blast radius
ServiceStates ==
    [found : {TRUE}, blast : 0..MaxBlast, critical : 0..1, rollback_safety_score : Scores]
    \cup {[found |-> FALSE, blast |-> 0, critical |-> 0, rollback_safety_score |-> NullScore]}

NotANumber == 0 - 2                  \* a JSON value that is text, not a number
\* the action_details argument: text that is not JSON, JSON that is not an
\* object, an object with optional keys "from" and "to", or the payload
\* the executor's _simulate_scale reads, {"direction": "up", "factor": 10}
ScaleValues == {Absent, NotANumber} \cup 0..MaxScale
GuardrailDetails ==
    [shape : {"object"}, from : ScaleValues, to : ScaleValues]
    \cup [shape : {"invalid", "nonobject", "direction_factor"},
          from : {Absent}, to : {Absent}]

\* details.get(key, 1)
GetOr1(v) == IF v = Absent THEN 1 ELSE v

Check(name, status) == [check |-> name, status |-> status]

\* lines 194-210
\* the limit itself already blocks
BlastRadiusBlocked_at_limit(service) == service.blast >= GUARDRAILS.max_blast_radius

BlastRadiusBlocked(service) == service.blast > GUARDRAILS.max_blast_radius
BlastRadiusCheck(service) ==
    Check("blast_radius", IF BlastRadiusBlocked(service) THEN "blocked" ELSE "passed")

\* lines 212-228
\* one critical dependent is not enough to warn
CriticalDependencyWarns_two_or_more(service) ==
    service.critical > 1 /\ GUARDRAILS.critical_services_require_approval

CriticalDependencyWarns(service) ==
    service.critical > 0 /\ GUARDRAILS.critical_services_require_approval
CriticalDependencyCheck(service) ==
    Check("critical_dependency",
          IF CriticalDependencyWarns(service) THEN "warning" ELSE "passed")

\* lines 230-238: float(score) if service and score else 0.5; a stored
\* score of 0 is falsy and reads as 0.5
RollbackSafetyScore(service) ==
    IF service.found /\ service.rollback_safety_score \notin {NullScore, 0}
    THEN service.rollback_safety_score ELSE 50
RollbackSafetyCheck(action_type, service) ==
    IF action_type = "rollback" /\ GUARDRAILS.rollback_always_allowed
    THEN << [check |-> "rollback_safety", status |-> "passed",
             safety_score |-> RollbackSafetyScore(service)] >>
    ELSE << >>

\* lines 240-256
\* the window's closing hour still counts as peak
PeakHoursBlocked_through_end(action_type, hour) ==
    /\ GUARDRAILS.peak_hours_utc[1] <= hour
    /\ hour <= GUARDRAILS.peak_hours_utc[2]
    /\ action_type \in GUARDRAILS.blocked_actions_in_peak_hours

PeakHoursBlocked(action_type, hour) ==
    /\ GUARDRAILS.peak_hours_utc[1] <= hour
    /\ hour < GUARDRAILS.peak_hours_utc[2]
    /\ action_type \in GUARDRAILS.blocked_actions_in_peak_hours
PeakHoursCheck(action_type, hour) ==
    Check("peak_hours", IF PeakHoursBlocked(action_type, hour) THEN "blocked" ELSE "passed")

\* lines 258-274: scale_to / scale_from > max_scale_factor, on integers
ScaleFactorBlocked(action_type, details) ==
    /\ action_type = "scale_up"
    /\ GetOr1(details.from) > 0
    /\ GetOr1(details.to) > GUARDRAILS.max_scale_factor * GetOr1(details.from)
ScaleFactorCheck(action_type, details) ==
    IF action_type = "scale_up"
    THEN << Check("scale_factor",
                  IF ScaleFactorBlocked(action_type, details) THEN "blocked" ELSE "passed") >>
    ELSE << >>

\* line 188 raises on text that is not JSON, line 260 on details.get when
\* the JSON is not an object, line 262 on comparing or dividing text:
\* scale_from > 0 is evaluated first, and scale_to / scale_from only when
\* it is true
GuardrailsRaise(action_type, details) ==
    \/ details.shape = "invalid"
    \/ details.shape = "nonobject" /\ action_type = "scale_up"
    \/ /\ action_type = "scale_up"
       /\ \/ details.from = NotANumber
          \/ GetOr1(details.from) > 0 /\ details.to = NotANumber

\* the all_passed flag with the peak-hours check leaving it set
AllPassed_despite_peak_hours(action_type, details, service, hour) ==
    /\ ~BlastRadiusBlocked(service)
    /\ ~ScaleFactorBlocked(action_type, details)

\* the all_passed flag: cleared at lines 204, 250 and 268
AllPassed(action_type, details, service, hour) ==
    /\ ~BlastRadiusBlocked(service)
    /\ ~PeakHoursBlocked(action_type, hour)
    /\ ~ScaleFactorBlocked(action_type, details)

CountStatus(checks, status) ==
    Cardinality({k \in DOMAIN checks : checks[k].status = status})

\* lines 190-289: the result dict
EvaluateGuardrails(action_type, details, service, hour) ==
    LET checks == << BlastRadiusCheck(service), CriticalDependencyCheck(service) >>
                  \o RollbackSafetyCheck(action_type, service)
                  \o << PeakHoursCheck(action_type, hour) >>
                  \o ScaleFactorCheck(action_type, details)
        all_passed == AllPassed(action_type, details, service, hour)
        requires_approval == CriticalDependencyWarns(service)
    IN [status |-> IF ~all_passed THEN "blocked"
                   ELSE IF requires_approval THEN "requires_approval" ELSE "approved",
        action_type |-> action_type,
        all_checks_passed |-> all_passed,
        requires_human_approval |-> requires_approval,
        checks |-> checks,
        total_checks |-> Len(checks),
        passed |-> CountStatus(checks, "passed"),
        warnings |-> CountStatus(checks, "warning"),
        blocked |-> CountStatus(checks, "blocked")]

\* lines 177-185: create_audit_log(agent_name="mediator",
\* action_type="check_guardrails", ...), status left to its default
check_guardrails_create(c) ==
    /\ Idle(c)
    /\ Len(audit_logs) < MaxEntries
    /\ audit_logs' = create_audit_log(audit_logs, "mediator", "check_guardrails",
                                      "object", NoIncident, DefaultStatus, now)
    /\ Call(c, "check_guardrails", Len(audit_logs) + 1, Null, "guardrails_evaluate")
    /\ UNCHANGED <<incidents, config_changes, now, history>>

\* lines 187-292: evaluate, write the result to the audit entry and return
\* it; an exception goes to line 294.  The returned value is kept with
\* the arguments and the readings it was computed from.
check_guardrails_evaluate(c, action_type, details, service, hour) ==
    /\ pc[c] = "guardrails_evaluate"
    /\ IF GuardrailsRaise(action_type, details)
       THEN /\ Goto(c, "guardrails_except")
            /\ UNCHANGED audit_logs
       ELSE LET result == EvaluateGuardrails(action_type, details, service, hour) IN
            /\ audit_logs' = update_audit_log(audit_logs, op[c].id, "success",
                                              result.status, Null, now)
            /\ returned' = [name |-> "check_guardrails", kind |-> "result",
                            status |-> result.status, result |-> result,
                            request |-> [action_type |-> action_type, details |-> details,
                                         service |-> service, hour |-> hour]]
            /\ pc' = [pc EXCEPT ![c] = "done"]
            /\ op' = [op EXCEPT ![c] = NoOp]
            /\ UNCHANGED <<pending, active>>
    /\ UNCHANGED <<incidents, config_changes, now, history>>

\* lines 294-298: update_audit_log(audit["id"], status="failed",
\* error_message=error_msg)
check_guardrails_except(c) ==
    /\ pc[c] = "guardrails_except"
    /\ audit_logs' = update_audit_log(audit_logs, op[c].id, "failed", Null,
                                      "Guardrail check failed", now)
    /\ Return(c, "check_guardrails", "error", Null)
    /\ UNCHANGED <<incidents, config_changes, now, history>>

\* every call before c has returned
Turn(c) == \A d \in Calls : d < c => pc[d] = "done"

\* the evaluations are requested one after the other
check_guardrails(c) ==
    \/ /\ Turn(c)
       /\ check_guardrails_create(c)
    \/ /\ pc[c] = "guardrails_evaluate"
       /\ \E t \in GuardrailActionTypes, d \in GuardrailDetails,
             s \in ServiceStates, h \in Hours : check_guardrails_evaluate(c, t, d, s, h)
    \/ check_guardrails_except(c)

GuardrailNext == \E c \in Calls : check_guardrails(c)

GuardrailSpec == Init /\ [][GuardrailNext]_vars

\* C20: for all guardrail inputs the overall status is blocked if and only
\* if at least one check has status blocked; otherwise it is
\* requires_approval if and only if some check is a warning; otherwise it
\* is approved.
C20_OverallStatusFollowsChecks ==
    (returned.name = "check_guardrails" /\ returned.kind = "result") =>
        LET checks == returned.result.checks
            some_blocked == \E k \in DOMAIN checks : checks[k].status = "blocked"
            some_warning == \E k \in DOMAIN checks : checks[k].status = "warning"
        IN returned.result.status =
              IF some_blocked THEN "blocked"
              ELSE IF some_warning THEN "requires_approval" ELSE "approved"

\* a guardrail evaluation has returned blocked with a passed
\* blast-radius check, a critical-dependency warning and a blocked
\* peak-hours check: the block wins over the warning
C20_Witness ==
    /\ returned.name = "check_guardrails"
    /\ returned.kind = "result"
    /\ returned.status = "blocked"
    /\ \E k \in DOMAIN returned.result.checks :
          returned.result.checks[k] = Check("peak_hours", "blocked")
    /\ \E k \in DOMAIN returned.result.checks :
          returned.result.checks[k] = Check("critical_dependency", "warning")
    /\ returned.result.blocked = 1

\* the guardrail evaluation that has just returned its result
GuardrailResult == returned.name = "check_guardrails" /\ returned.kind = "result"

\* the status of the check called name in the returned result, "none"
\* when the result has no such check
StatusOfCheck(name) ==
    LET checks == returned.result.checks
        found == {k \in DOMAIN checks : checks[k].check = name}
    IN IF found = {} THEN "none" ELSE checks[CHOOSE k \in found : TRUE].status

\* C22: the blast_radius check is blocked if and only if the service has
\* more than 5 transitive dependents, and then the overall status is
\* blocked; with 5 or fewer dependents the check is passed.
C22_BlastRadiusBlockedAboveFive ==
    GuardrailResult =>
        /\ StatusOfCheck("blast_radius") =
              IF returned.request.service.blast > 5 THEN "blocked" ELSE "passed"
        /\ returned.request.service.blast > 5 => returned.result.status = "blocked"

\* a restart of a service with 6 transitive dependents, outside the peak
\* window, has returned blocked with blast_radius as its one blocked check
C22_Witness ==
    /\ GuardrailResult
    /\ returned.request.action_type = "restart"
    /\ returned.request.details = [shape |-> "object", from |-> Absent, to |-> Absent]
    /\ returned.request.service.blast = 6
    /\ returned.request.hour = 13
    /\ returned.result.status = "blocked"
    /\ StatusOfCheck("blast_radius") = "blocked"
    /\ returned.result.blocked = 1

\* C23: the critical_dependency check is a warning, and the result
\* demands approval, if and only if at least one direct dependent of the
\* service is critical; otherwise the check is passed and the result does
\* not demand approval.
C23_CriticalDependencyWarnsIffCritical ==
    GuardrailResult =>
        LET critical == returned.request.service.critical > 0 IN
        /\ StatusOfCheck("critical_dependency") = IF critical THEN "warning" ELSE "passed"
        /\ returned.result.requires_human_approval = critical

\* an evaluation for a service with a critical direct dependent and no
\* blocked check has returned requires_approval
C23_Witness ==
    /\ GuardrailResult
    /\ returned.request.service.critical = 1
    /\ StatusOfCheck("critical_dependency") = "warning"
    /\ returned.result.requires_human_approval
    /\ returned.result.status = "requires_approval"
    /\ returned.result.warnings = 1

\* C24: for action type rollback the rollback check is present with status
\* passed whatever the service's state and the other checks' outcomes, and
\* it carries the service's stored rollback_safety_score, for every stored
\* value of that score in [0,1].
C24_RollbackCheckCarriesStoredScore ==
    (GuardrailResult /\ returned.request.action_type = "rollback") =>
        LET checks == returned.result.checks
            service == returned.request.service
        IN \E k \in DOMAIN checks :
              /\ checks[k].check = "rollback_safety"
              /\ checks[k].status = "passed"
              /\ (service.found /\ service.rollback_safety_score # NullScore)
                    => checks[k].safety_score = service.rollback_safety_score

\* C25: the peak_hours check is blocked exactly when the current UTC hour
\* h satisfies 14 <= h < 22 and the action type is restart or scale_down;
\* for every other hour or action type it is passed.
C25_PeakHoursBlockedInWindow ==
    GuardrailResult =>
        StatusOfCheck("peak_hours") =
            IF /\ 14 <= returned.request.hour
               /\ returned.request.hour < 22
               /\ returned.request.action_type \in {"restart", "scale_down"}
            THEN "blocked" ELSE "passed"

\* a scale_down in the window's first hour has returned blocked with
\* peak_hours as its one blocked check
C25_Witness ==
    /\ GuardrailResult
    /\ returned.request.action_type = "scale_down"
    /\ returned.request.hour = 14
    /\ StatusOfCheck("peak_hours") = "blocked"
    /\ returned.result.status = "blocked"
    /\ returned.result.blocked = 1

\* the evaluated action scales a service up: the mediator's type scale_up,
\* or the executor's type scale with the payload its _simulate_scale reads
ScalesUp(request) ==
    \/ request.action_type = "scale_up"
    \/ request.action_type = "scale" /\ request.details.shape = "direction_factor"

\* C26: for every scale-up action with instance counts from and to
\* (non-negative integers, each 1 when absent) the scale_factor check is
\* blocked when to/from exceeds 3 and passed otherwise; the check is
\* evaluated for every action that scales a service up.
C26_ScaleFactorCheckedOnEveryScaleUp ==
    LET request == returned.request
        from == GetOr1(request.details.from)
        to == GetOr1(request.details.to)
    IN (GuardrailResult /\ ScalesUp(request) /\ from >= 0 /\ to >= 0) =>
          StatusOfCheck("scale_factor") =
             IF from > 0 /\ to > 3 * from THEN "blocked" ELSE "passed"

\* C27: guardrail evaluation is pure: any number of evaluations, one after
\* the other or at once, leave the store (incidents, audit-log entries,
\* configuration changes) unchanged.
C27_GuardrailEvaluationLeavesStore ==
    [][(\E c \in Calls : check_guardrails(c)) => UNCHANGED store]_vars

\* =====================================================================
\* mediator-agent: produce_recommendation(incident_id, proposed_action,
\* proposed_action_details), with its call of check_guardrails, its
\* safety score and its verdict.
\* =====================================================================

\* A float is written as 100 times its value in hundredths plus its
\* distance, in units of 2^-55, from the double nearest to that many
\* hundredths: 1.0 is 10000, 0.7 is 7000, and 0.39999999999999997 (the
\* double below 0.4) is 3998.
Float(hundredths) == 100 * hundredths

\* what rounding to the nearest double adds to the exact difference x - p:
\* 0.7 - 0.4 = 0.29999999999999993, 0.6 - 0.2 = 0.39999999999999997,
\* 0.7 - 0.2 = 0.49999999999999994,
\* 0.29999999999999993 - 0.2 = 0.09999999999999992; the other differences
\* the handler forms are the doubles nearest to their hundredths
SubError(x, p) ==
    IF <<x, p>> \in {<<7000, 40>>, <<6000, 20>>, <<7000, 20>>} THEN 0 - 2
    ELSE IF <<x, p>> = <<2998, 20>> THEN 0 - 1
    ELSE 0

\* safety_score -= p, on doubles
FloatSub(x, p) == x - Float(p) + SubError(x, p)

\* max(0.0, min(1.0, x))
Clamp(x) == IF x < 0 THEN 0 ELSE IF x > Float(100) THEN Float(100) ELSE x

\* round(x, 2), in hundredths
Round2(x) == (x + 50) \div 100

\* what the handler gets back from check_guardrails: the result dict, or
\* the error dict of its except branch
GuardrailReply(action_type, details, service, hour) ==
    IF GuardrailsRaise(action_type, details)
    THEN [status |-> "error"]
    ELSE EvaluateGuardrails(action_type, details, service, hour)

\* guardrail_result.get("blocked", 0)
GetBlocked(guardrail_result) ==
    IF "blocked" \in DOMAIN guardrail_result THEN guardrail_result.blocked ELSE 0

\* guardrail_result.get("requires_human_approval", True)
GetRequiresApproval(guardrail_result) ==
    IF "requires_human_approval" \in DOMAIN guardrail_result
    THEN guardrail_result.requires_human_approval ELSE TRUE

\* the exceptions the handler can catch at line 458
DetailsNotJson == "details are not JSON"               \* json.loads, line 340
DetailsNotAnObject == "details are not an object"      \* details.get, line 450
ReasoningFailed == "reasoning service failed"          \* lines 384-406

\* line 340 raises on text that is not JSON, line 450 on details.get when
\* the JSON is not an object
RecommendationRaises(details) == details.shape \in {"invalid", "nonobject"}

\* the high penalty already at three affected services
BlastPenalty_high_from_three(blast_count) ==
    IF blast_count >= 3 THEN 30 ELSE IF blast_count > 0 THEN 10 ELSE 0

\* lines 358-364
BlastPenalty(blast_count) ==
    IF blast_count > 3 THEN 30 ELSE IF blast_count > 0 THEN 10 ELSE 0

\* the penalty also when the guardrails only demand approval
BlockedPenalty_counting_warnings(guardrail_result) ==
    IF guardrail_result.status \in {"blocked", "requires_approval"} THEN 40 ELSE 0

\* lines 366-368
BlockedPenalty(guardrail_result) == IF GetBlocked(guardrail_result) > 0 THEN 40 ELSE 0

\* lines 373-377: a missing service, a NULL score and a score of 0 are all
\* falsy and skip the comparison
LowRollbackSafety(service) ==
    /\ service.found
    /\ service.rollback_safety_score \notin {NullScore, 0}
    /\ service.rollback_safety_score < 50

Subtract(x, p) == IF p = 0 THEN x ELSE FloatSub(x, p)

\* lines 355-379
SafetyScore(service, guardrail_result) ==
    Clamp(Subtract(Subtract(Subtract(Float(100), BlastPenalty(service.blast)),
                            BlockedPenalty(guardrail_result)),
                   IF LowRollbackSafety(service) THEN 20 ELSE 0))

RiskFactors(service, guardrail_result, severity) ==
    (IF service.blast > 3 THEN {"High blast radius"}
     ELSE IF service.blast > 0 THEN {"Moderate blast radius"} ELSE {})
    \cup (IF GetBlocked(guardrail_result) > 0
          THEN {"Some guardrail checks were blocked"} ELSE {})
    \cup (IF severity = "critical" THEN {"Critical severity incident"} ELSE {})
    \cup (IF LowRollbackSafety(service) THEN {"Low rollback safety score"} ELSE {})

\* the score alone decides
Verdict_by_score_alone(guardrail_result, safety_score) ==
    IF safety_score >= Float(70) THEN "RECOMMENDED"
    ELSE IF safety_score >= Float(40) THEN "CAUTION"
    ELSE "NOT_RECOMMENDED"

\* lines 408-420
Verdict(guardrail_result, safety_score) ==
    IF guardrail_result.status = "blocked" THEN "BLOCKED"
    ELSE IF safety_score >= Float(70) THEN "RECOMMENDED"
    ELSE IF safety_score >= Float(40) THEN "CAUTION"
    ELSE "NOT_RECOMMENDED"

\* the guardrails alone decide
RequiresApproval_guardrails_only(guardrail_result, verdict) ==
    GetRequiresApproval(guardrail_result)

\* lines 422-425
RequiresApproval(guardrail_result, verdict) ==
    \/ GetRequiresApproval(guardrail_result)
    \/ verdict \in {"CAUTION", "NOT_RECOMMENDED", "BLOCKED"}

\* lines 427-452: the result dict
Recommendation(proposed_action, service, guardrail_result, severity) ==
    LET safety_score == SafetyScore(service, guardrail_result)
        verdict == Verdict(guardrail_result, safety_score)
    IN [status |-> "recommendation_ready",
        incident_severity |-> severity,
        proposed_action |-> proposed_action,
        verdict |-> verdict,
        safety_score |-> Round2(safety_score),
        risk_factors |-> RiskFactors(service, guardrail_result, severity),
        total_affected |-> service.blast,
        guardrail_status |-> guardrail_result.status,
        guardrail_blocked |-> GetBlocked(guardrail_result),
        requires_human_approval |-> RequiresApproval(guardrail_result, verdict)]

\* the audit row check_guardrails leaves behind when it is called at line
\* 348: inserted with the default status (lines 177-185), then set to
\* success with the result (line 291) or to failed (line 297)
WithGuardrailRow(logs, guardrail_result, t) ==
    LET created == create_audit_log(logs, "mediator", "check_guardrails",
                                    "object", NoIncident, DefaultStatus, t)
    IN IF guardrail_result.status = "error"
       THEN update_audit_log(created, Len(created), "failed", Null,
                             "Guardrail check failed", t)
       ELSE update_audit_log(created, Len(created), "success",
                             guardrail_result.status, Null, t)

\* lines 335-337: the incident is not stored; the handler returns, leaving
\* its audit row as created
produce_recommendation_not_found(c) ==
    /\ pc[c] = "recommend_assess"
    /\ audit_logs[op[c].id].incident_id \notin DOMAIN incidents
    /\ Return(c, "produce_recommendation", "not_found", Null)
    /\ UNCHANGED <<store, now, history>>

\* lines 339-456 for a stored incident: parse the details, read the
\* service's data, call check_guardrails, score, decide, write the result
\* to the audit row and return it.  The store reads of lines 343-345 and
\* those of check_guardrails see the same service data.  The returned
\* value is kept with the arguments and readings it was computed from and
\* with the guardrail reply.
produce_recommendation_evaluate(c, proposed_action, details, service, hour) ==
    /\ pc[c] = "recommend_assess"
    /\ audit_logs[op[c].id].incident_id \in DOMAIN incidents
    /\ IF details.shape = "invalid"
       THEN /\ Raise(c, "recommend_except", DetailsNotJson)
            /\ UNCHANGED audit_logs
       ELSE LET guardrail_result == GuardrailReply(proposed_action, details, service, hour)
                severity == incidents[audit_logs[op[c].id].incident_id].severity
                result == Recommendation(proposed_action, service, guardrail_result, severity)
                logged == WithGuardrailRow(audit_logs, guardrail_result, now)
            IN /\ Len(audit_logs) < MaxEntries
               /\ IF RecommendationRaises(details)
                  THEN /\ audit_logs' = logged
                       /\ Raise(c, "recommend_except", DetailsNotAnObject)
                  ELSE /\ audit_logs' = update_audit_log(logged, op[c].id, "success",
                                                         result.verdict, Null, now)
                       /\ returned' = [name |-> "produce_recommendation",
                                       kind |-> "result",
                                       status |-> result.status,
                                       result |-> result,
                                       guardrail_result |-> guardrail_result,
                                       request |-> [proposed_action |-> proposed_action,
                                                    details |-> details,
                                                    service |-> service,
                                                    hour |-> hour]]
                       /\ pc' = [pc EXCEPT ![c] = "done"]
                       /\ op' = [op EXCEPT ![c] = NoOp]
                       /\ UNCHANGED <<pending, active>>
    /\ UNCHANGED <<incidents, config_changes, now, history>>

\* lines 381-406: the Gemini call raises after check_guardrails has
\* returned with some status
GuardrailStatuses == {"approved", "requires_approval", "blocked", "error"}
produce_recommendation_reasoning_error(c) ==
    /\ pc[c] = "recommend_assess"
    /\ audit_logs[op[c].id].incident_id \in DOMAIN incidents
    /\ Len(audit_logs) < MaxEntries
    /\ \E status \in GuardrailStatuses :
          audit_logs' = WithGuardrailRow(audit_logs, [status |-> status], now)
    /\ Raise(c, "recommend_except", ReasoningFailed)
    /\ UNCHANGED <<incidents, config_changes, now, history>>

\* the store before any agent has logged anything
RecommendInit ==
    /\ audit_logs = << >>
    /\ incidents = [i \in Incidents |->
                      [severity |-> SeverityOf(i),
                       status |-> "open",
                       affected_service |-> IF i = 1 THEN "checkout" ELSE "orders"]]
    /\ config_changes = << >>
    /\ now = StartNow
    /\ pc = [c \in Calls |-> "idle"]
    /\ op = [c \in Calls |-> NoOp]
    /\ pending = [c \in Calls |-> {}]
    /\ active = [c \in Calls |-> {}]
    /\ returned = NoReturn
    /\ executed = [e \in EntryIds |-> 0]
    /\ gated = {}
    /\ emergency = {}
    /\ rejected_ok = {}
    /\ swept = {}
    /\ incident_updates = [e \in EntryIds |-> 0]

\* the proposed_action_details a recommendation is asked for: no counts, a
\* scale the guardrails block, a count that is text (check_guardrails
\* fails on it for scale_up), text that is not JSON, JSON that is not an
\* object, and the executor's scale payload
RecommendDetails ==
    {[shape |-> "object", from |-> Absent, to |-> Absent],
     [shape |-> "object", from |-> 1, to |-> MaxScale],
     [shape |-> "object", from |-> NotANumber, to |-> Absent],
     [shape |-> "invalid", from |-> Absent, to |-> Absent],
     [shape |-> "nonobject", from |-> Absent, to |-> Absent],
     [shape |-> "direction_factor", from |-> Absent, to |-> Absent]}
\* an hour before the peak window and one inside it
RecommendHours == {13, 14}

\* the recommendations are requested one after the other, each while the
\* audit log has room for its own row and for the guardrail row
recommend(c) ==
    \/ /\ Turn(c)
       /\ Len(audit_logs) + 2 <= MaxEntries
       /\ \E i \in PipelineIncidentArgs : produce_recommendation_create(c, i)
    \/ produce_recommendation_not_found(c)
    \/ /\ pc[c] = "recommend_assess"
       /\ \E t \in GuardrailActionTypes, d \in RecommendDetails,
             s \in ServiceStates, h \in RecommendHours :
                produce_recommendation_evaluate(c, t, d, s, h)
    \/ produce_recommendation_reasoning_error(c)
    \/ produce_recommendation_except(c)

RecommendNext == \E c \in Calls : recommend(c)

RecommendSpec == RecommendInit /\ [][RecommendNext]_vars

\* the recommendation that has just been returned
RecommendationResult ==
    returned.name = "produce_recommendation" /\ returned.kind = "result"

\* some check of the guardrail reply is blocked (an error reply has no checks)
AnyCheckBlocked(guardrail_result) ==
    /\ "checks" \in DOMAIN guardrail_result
    /\ \E k \in DOMAIN guardrail_result.checks :
          guardrail_result.checks[k].status = "blocked"

\* C21: the verdict is BLOCKED whenever the guardrail status is blocked,
\* whatever the score; otherwise RECOMMENDED when the score is at least
\* 0.7, CAUTION when it is at least 0.4 and below 0.7, and NOT_RECOMMENDED
\* when it is below 0.4.
C21_VerdictFollowsGuardrailsThenScore ==
    RecommendationResult =>
        returned.result.verdict =
            IF returned.guardrail_result.status = "blocked" THEN "BLOCKED"
            ELSE IF returned.result.safety_score >= 70 THEN "RECOMMENDED"
            ELSE IF returned.result.safety_score >= 40 THEN "CAUTION"
            ELSE "NOT_RECOMMENDED"

\* a restart in the peak window on a service nothing depends on: the
\* score is 0.6, CAUTION by the score alone, and the verdict is BLOCKED
C21_Witness ==
    /\ RecommendationResult
    /\ returned.request.proposed_action = "restart"
    /\ returned.request.hour = 14
    /\ returned.request.service.blast = 0
    /\ returned.guardrail_result.status = "blocked"
    /\ returned.result.safety_score = 60
    /\ returned.result.verdict = "BLOCKED"

\* C28: the safety score starts at 1.0, loses 0.3 when the blast radius is
\* above 3 and otherwise 0.1 when it is above 0, loses 0.4 when any
\* guardrail check is blocked, and always lies in [0,1]; for blast radius
\* 0, no blocked guardrail and rollback_safety_score 0.9 it is exactly 1.0
\* and the verdict is RECOMMENDED.
C28_SafetyScoreIsOneMinusPenalties ==
    RecommendationResult =>
        LET blast == returned.request.service.blast
            blocked == AnyCheckBlocked(returned.guardrail_result)
            low_rollback == "Low rollback safety score" \in returned.result.risk_factors
            score == returned.result.safety_score
        IN /\ score = 100 - (IF blast > 3 THEN 30 ELSE IF blast > 0 THEN 10 ELSE 0)
                          - (IF blocked THEN 40 ELSE 0)
                          - (IF low_rollback THEN 20 ELSE 0)
           /\ 0 <= score /\ score <= 100
           /\ (/\ blast = 0
               /\ ~blocked
               /\ returned.request.service.found
               /\ returned.request.service.rollback_safety_score = 90)
                 => score = 100 /\ returned.result.verdict = "RECOMMENDED"

\* blast radius 0, nothing blocked, rollback_safety_score 0.9: the score
\* is 1.0, no risk factor is recorded for a high-severity incident, and
\* the verdict is RECOMMENDED
C28_Witness ==
    /\ RecommendationResult
    /\ returned.request.service =
          [found |-> TRUE, blast |-> 0, critical |-> 0, rollback_safety_score |-> 90]
    /\ returned.guardrail_result.status = "approved"
    /\ returned.result.incident_severity = "high"
    /\ returned.result.risk_factors = {}
    /\ returned.result.safety_score = 100
    /\ returned.result.verdict = "RECOMMENDED"

\* C29: the safety score loses 0.2, and a low-rollback-safety risk factor
\* is recorded, for every service whose rollback_safety_score is below
\* 0.5, a score of exactly 0 included; there is no such penalty when the
\* score is 0.5 or more.
C29_LowRollbackSafetyIsPenalised ==
    RecommendationResult =>
        LET service == returned.request.service
            low == /\ service.found
                   /\ service.rollback_safety_score # NullScore
                   /\ service.rollback_safety_score < 50
        IN /\ ("Low rollback safety score" \in returned.result.risk_factors) = low
           /\ returned.result.safety_score =
                 100 - (IF service.blast > 3 THEN 30 ELSE IF service.blast > 0 THEN 10 ELSE 0)
                     - (IF AnyCheckBlocked(returned.guardrail_result) THEN 40 ELSE 0)
                     - (IF low THEN 20 ELSE 0)

\* C30: requiresHumanApproval is true whenever the guardrail result
\* demands approval or the verdict is CAUTION, NOT_RECOMMENDED or BLOCKED;
\* it is false only when the verdict is RECOMMENDED and the guardrails do
\* not demand approval.
C30_ApprovalRequiredUnlessRecommended ==
    RecommendationResult =>
        LET demanded == /\ "requires_human_approval" \in DOMAIN returned.guardrail_result
                        /\ returned.guardrail_result.requires_human_approval
            verdict == returned.result.verdict
            required == returned.result.requires_human_approval
        IN /\ (demanded \/ verdict \in {"CAUTION", "NOT_RECOMMENDED", "BLOCKED"}) => required
           /\ ~required => (verdict = "RECOMMENDED" /\ ~demanded)

\* a rollback on a service with 4 dependents, none critical, whose stored
\* rollback safety is 0.3: the guardrails approve without demanding
\* approval, the verdict is CAUTION, and approval is required
C30_Witness ==
    /\ RecommendationResult
    /\ returned.request.proposed_action = "rollback"
    /\ returned.request.service =
          [found |-> TRUE, blast |-> 4, critical |-> 0, rollback_safety_score |-> 30]
    /\ returned.guardrail_result.status = "approved"
    /\ ~returned.guardrail_result.requires_human_approval
    /\ returned.result.verdict = "CAUTION"
    /\ returned.result.requires_human_approval

\* ---------------------------------------------------------------------
\* Claims C31..C40
\* ---------------------------------------------------------------------

\* C33: the blast radius of a name that is not a stored service is a
\* not-found failure, never an empty or partial radius: every
\* check_guardrails call that returns a result computed its blast_radius
\* check for a stored service.
C33_BlastRadiusOfAbsentServiceFails ==
    GuardrailResult => returned.request.service.found

\* the tools of the mediator agent that open an audit entry when called
MediatorTools == {"analyze_blast_radius", "check_guardrails", "produce_recommendation"}

\* C35: no mediator tool call fails silently: when a call of
\* analyze_blast_radius, check_guardrails or produce_recommendation
\* returns, the audit entry it created at its start has status success or
\* failed, also when the service or the incident was not found.
C35_MediatorEntryClosedAtReturn ==
    [][\A c \in Calls :
          (op[c].name \in MediatorTools /\ pc[c] # "done" /\ pc'[c] = "done")
             => audit_logs'[op[c].id].status \in {"success", "failed"}]_vars

\* ---------------------------------------------------------------------
\* mediator-agent: analyze_blast_radius(service_name) and the dependency
\* graph it reads
\* ---------------------------------------------------------------------

MaxServices == 3                     \* stored services, named 1..MaxServices
MaxEdges == 4                        \* distinct dependency edges stored

\* the stored services; a service's name is its number, and names are
\* ordered as the numbers are
Services == 1..MaxServices
NoService == 0                       \* a name no stored service has
NullId == 0 - 1                      \* (SELECT id ...) that selected no row
ServiceNames == Services \cup {NoService}

\* the edges (service, depends_on_service) a dependency table can hold:
\* any directed graph over the services, cycles and self-dependencies
\* included
DependencyGraphs ==
    {edges \in SUBSET (Services \X Services) : Cardinality(edges) <= MaxEdges}

\* the rows of service_dependencies for a graph: one row an edge, or two
\* when every edge was inserted twice
DependencyRows(edges, duplicated) ==
    {[service_id |-> e[1], depends_on_service_id |-> e[2], copy |-> k] :
        e \in edges, k \in 1..(IF duplicated THEN 2 ELSE 1)}

\* the services one row away from a service of the frontier
Dependents(rows, frontier) ==
    {r.service_id : r \in {q \in rows : q.depends_on_service_id \in frontier}}

\* breadth-first traversal of the incoming edges with a visited set: the
\* services first reached at this hop, then the traversal from them
RECURSIVE Traverse(_, _, _, _)
Traverse(rows, frontier, visited, hop) ==
    LET reached == Dependents(rows, frontier) \ visited
    IN IF reached = {}
       THEN {}
       ELSE {[service_name |-> s, hop_count |-> hop] : s \in reached}
               \cup Traverse(rows, reached, visited \cup reached, hop + 1)

\* the SQL function calculate_blast_radius(service_id): the rows
\* (service_name, hop_count) of the traversal from the root, none for a
\* NULL root
BlastRadius(rows, root_id) ==
    IF root_id = NullId THEN {} ELSE Traverse(rows, {root_id}, {root_id}, 1)

\* ORDER BY service_name alone
ComesBefore_by_name(r, q) == r.service_name < q.service_name
\* ORDER BY hop_count, service_name
ComesBefore(r, q) ==
    \/ r.hop_count < q.hop_count
    \/ r.hop_count = q.hop_count /\ r.service_name < q.service_name

\* the rows of a result set in the order ORDER BY gives them
RECURSIVE OrderBy(_)
OrderBy(rows) ==
    IF rows = {}
    THEN << >>
    ELSE LET first == CHOOSE r \in rows : \A q \in rows \ {r} : ComesBefore(r, q)
         IN <<first>> \o OrderBy(rows \ {first})

\* get_service(service_name) finds a row
ServiceStored(service_name) == service_name \in Services

\* (SELECT id FROM services WHERE name = %s)
ServiceId(service_name) == IF ServiceStored(service_name) THEN service_name ELSE NullId

\* db_utils.calculate_blast_radius(service_name)
calculate_blast_radius(rows, service_name) ==
    OrderBy(BlastRadius(rows, ServiceId(service_name)))

\* db_utils.get_service_dependencies(service_name): one row for each
\* dependency row that points at the service
get_service_dependencies(rows, service_name) ==
    {r \in rows : r.depends_on_service_id = ServiceId(service_name)}

\* lines 79-83: create_audit_log(agent_name="mediator",
\* action_type="analyze_blast_radius", ...), status left to its default
analyze_blast_radius_create(c) ==
    /\ Idle(c)
    /\ Len(audit_logs) < MaxEntries
    /\ audit_logs' = create_audit_log(audit_logs, "mediator", "analyze_blast_radius",
                                      "object", NoIncident, DefaultStatus, now)
    /\ Call(c, "analyze_blast_radius", Len(audit_logs) + 1, Null, "blast_analyze")
    /\ UNCHANGED <<incidents, config_changes, now, history>>

\* lines 85-143: get_service and the not-found return; else the direct
\* dependents, the blast radius and the report, written to the audit row
\* and returned.  The returned value is kept with the argument and the
\* dependency rows it was computed from; the report's risk figures are
\* left out.
analyze_blast_radius_evaluate(c, service_name, edges, duplicated) ==
    /\ pc[c] = "blast_analyze"
    /\ IF ~ServiceStored(service_name)
       THEN /\ Return(c, "analyze_blast_radius", "not_found", Null)
            /\ UNCHANGED audit_logs
       ELSE LET rows == DependencyRows(edges, duplicated)
                direct_deps == get_service_dependencies(rows, service_name)
                blast_radius == calculate_blast_radius(rows, service_name)
                result == [status |-> "analysis_complete",
                           direct_dependents |-> Cardinality(direct_deps),
                           total_blast_radius |-> Len(blast_radius),
                           blast_radius_chain |-> blast_radius]
            IN /\ audit_logs' = update_audit_log(audit_logs, op[c].id, "success",
                                                 result.status, Null, now)
               /\ returned' = [name |-> "analyze_blast_radius", kind |-> "result",
                               status |-> result.status, result |-> result,
                               request |-> [service_name |-> service_name,
                                            edges |-> edges,
                                            duplicated |-> duplicated]]
               /\ pc' = [pc EXCEPT ![c] = "done"]
               /\ op' = [op EXCEPT ![c] = NoOp]
               /\ UNCHANGED <<pending, active>>
    /\ UNCHANGED <<incidents, config_changes, now, history>>

\* lines 85-94: one of the store reads raises
analyze_blast_radius_read_error(c) ==
    /\ pc[c] = "blast_analyze"
    /\ Goto(c, "blast_except")
    /\ UNCHANGED <<store, now, history>>

\* lines 145-149: update_audit_log(audit["id"], status="failed",
\* error_message=error_msg)
analyze_blast_radius_except(c) ==
    /\ pc[c] = "blast_except"
    /\ audit_logs' = update_audit_log(audit_logs, op[c].id, "failed", Null,
                                      "Blast radius analysis failed", now)
    /\ Return(c, "analyze_blast_radius", "error", Null)
    /\ UNCHANGED <<incidents, config_changes, now, history>>

\* the analyses are requested one after the other
analyze_blast_radius(c) ==
    \/ /\ Turn(c)
       /\ analyze_blast_radius_create(c)
    \/ /\ pc[c] = "blast_analyze"
       /\ \E s \in ServiceNames, e \in DependencyGraphs, d \in BOOLEAN :
             analyze_blast_radius_evaluate(c, s, e, d)
    \/ analyze_blast_radius_read_error(c)
    \/ analyze_blast_radius_except(c)

BlastNext == \E c \in Calls : analyze_blast_radius(c)

BlastSpec == RecommendInit /\ [][BlastNext]_vars

\* a blast radius analysis has returned its report
BlastRadiusResult == returned.name = "analyze_blast_radius" /\ returned.kind = "result"

\* the services that depend on the root through at most n edges, the
\* root among them
RECURSIVE WithinHops(_, _, _)
WithinHops(edges, root, n) ==
    IF n = 0
    THEN {root}
    ELSE LET nearer == WithinHops(edges, root, n - 1)
         IN nearer \cup {e[1] : e \in {q \in edges : q[2] \in nearer}}

\* the least number of edges from s to the root, 0 when no path leads there
ShortestPath(edges, root, s) ==
    LET lengths == {n \in 1..MaxServices : s \in WithinHops(edges, root, n)}
    IN IF lengths = {} THEN 0 ELSE CHOOSE n \in lengths : \A m \in lengths : n <= m

C39_NeverNotRecommended ==
    RecommendationResult =>
        /\ returned.result.verdict # "NOT_RECOMMENDED"
        /\ "Some guardrail checks were blocked" \in returned.result.risk_factors
              => /\ returned.guardrail_result.status = "blocked"
                 /\ returned.result.verdict = "BLOCKED"
        /\ returned.guardrail_result.status # "blocked"
              => /\ returned.result.safety_score >= 50
                 /\ returned.result.verdict \in {"RECOMMENDED", "CAUTION"}

\* the lowest score without a blocked guardrail: more than 3 services
\* affected, one of them critical, and a rollback safety score of 0.3 give
\* 0.5 and CAUTION
C39_Witness ==
    /\ RecommendationResult
    /\ returned.request.service =
          [found |-> TRUE, blast |-> 4, critical |-> 1, rollback_safety_score |-> 30]
    /\ returned.guardrail_result.status = "requires_approval"
    /\ returned.result.safety_score = 50
    /\ returned.result.verdict = "CAUTION"

ListedAtReturn(c) ==
    active[c] \cup {id \in pending[c] :
                       ~Expired(op[c].at - audit_logs[id].created_at)}

OrphanInit ==
    /\ \E details \in {"object", "nonobject"} :
          audit_logs = << PendingRow(NoIncident, "rollback", "nonobject", 0),
                          PendingRow(1, "config_change", details, 0) >>
    /\ incidents = [i \in Incidents |->
                      [severity |-> SeverityOf(i),
                       status |-> "open",
                       affected_service |-> IF i = 1 THEN "checkout" ELSE "orders"]]
    /\ config_changes = << >>
    /\ now = StartNow
    /\ pc = [c \in Calls |-> "idle"]
    /\ op = [c \in Calls |-> NoOp]
    /\ pending = [c \in Calls |-> {}]
    /\ active = [c \in Calls |-> {}]
    /\ returned = NoReturn
    /\ executed = [e \in EntryIds |-> 0]
    /\ gated = {}
    /\ emergency = {}
    /\ rejected_ok = {}
    /\ swept = {}
    /\ incident_updates = [e \in EntryIds |-> 0]

OrphanSpec == OrphanInit /\ [][Next]_vars

\* the pending_approval entries whose incident_id is NULL
PendingOrphans ==
    {id \in DOMAIN audit_logs :
        /\ audit_logs[id].incident_id = NoIncident
        /\ audit_logs[id].status = "pending_approval"}

\* C38: a pending_approval entry with no linked incident is outside the
\* gate: approve on it returns not-found and writes nothing, no listing
\* reads it, so none returns or auto-rejects it however old it is, and
\* the only step that changes it is the write of a reject call for it.
C38_OrphanLeavesOnlyByReject ==
    [][\A id \in PendingOrphans :
          /\ \A c \in Calls :
                /\ id \notin pending'[c]
                /\ \A by \in Operators :
                      approve_action_select(c, id, by)
                         => /\ returned'.kind = "not_found"
                            /\ audit_logs' = audit_logs
          /\ audit_logs'[id] # audit_logs[id]
                => /\ audit_logs'[id].status = "rejected"
                   /\ \E c \in Calls : /\ op[c].name = "reject_action"
                                       /\ op[c].id = id
                                       /\ pc[c] = "reject_write"
                                       /\ pc'[c] = "done"]_vars

\* the entry without an incident is still pending_approval 31 minutes
\* after its creation, approve has never reached it, and a listing made
\* at that age has auto-rejected the linked entry created with it
C38_Witness ==
    /\ 1 \in PendingOrphans
    /\ now - audit_logs[1].created_at > APPROVAL_TIMEOUT_MINUTES
    /\ audit_logs[2].created_at = audit_logs[1].created_at
    /\ 2 \in swept
    /\ audit_logs[2].status = "rejected"
    /\ returned.name = "approve_action"
    /\ returned.kind = "not_found"

\* C31: the verdict, safety score, risk factors and approval requirement
\* of a recommendation are a function of the incident, the proposed
\* action, the blast radius, the guardrail result and the service state,
\* and the reasoning service never changes them: every result returned is
\* the one its inputs determine, and no call ends in an error that the
\* reasoning service caused.
C31_DecisionIndependentOfReasoningService ==
    returned.name = "produce_recommendation" =>
        /\ returned.kind = "result" =>
              LET decided == Recommendation(returned.request.proposed_action,
                                            returned.request.service,
                                            returned.guardrail_result,
                                            returned.result.incident_severity)
              IN /\ returned.result.verdict = decided.verdict
                 /\ returned.result.safety_score = decided.safety_score
                 /\ returned.result.risk_factors = decided.risk_factors
                 /\ returned.result.requires_human_approval
                       = decided.requires_human_approval
        /\ returned.kind = "error" =>
              returned.status \in {DetailsNotJson, DetailsNotAnObject}

\* ---------------------------------------------------------------------
\* web/app.py: the dashboard's approval endpoints
\* ---------------------------------------------------------------------

\* a row as create_audit_log inserts it, waiting with the default status
DashboardRow(incident_id, action_type) ==
    [PendingRow(incident_id, action_type, "object", 0) EXCEPT !.status = DefaultStatus]

\* the store the dashboard works on: a rollback proposed for incident 1,
\* a restart proposed for incident 2 and a row without an incident, all
\* with status pending
DashboardInit ==
    /\ audit_logs = << DashboardRow(1, "rollback"),
                       DashboardRow(2, "restart"),
                       DashboardRow(NoIncident, "restart") >>
    /\ incidents = [i \in Incidents |->
                      [severity |-> SeverityOf(i),
                       status |-> "open",
                       affected_service |-> IF i = 1 THEN "checkout" ELSE "orders"]]
    /\ config_changes = << >>
    /\ now = StartNow
    /\ pc = [c \in Calls |-> "idle"]
    /\ op = [c \in Calls |-> NoOp]
    /\ pending = [c \in Calls |-> {}]
    /\ active = [c \in Calls |-> {}]
    /\ returned = NoReturn
    /\ executed = [e \in EntryIds |-> 0]
    /\ gated = {}
    /\ emergency = {}
    /\ rejected_ok = {}
    /\ swept = {}
    /\ incident_updates = [e \in EntryIds |-> 0]

\* lines 441-468: list_approvals reads the pending rows and writes nothing
list_approvals(c) ==
    /\ Idle(c)
    /\ Return(c, "list_approvals", "listed", Null)
    /\ UNCHANGED <<store, now, history>>

\* lines 477-492: the SELECT ... JOIN incidents, the 404 and the 400
dashboard_approve_action_select(c, approval_id, approved_by) ==
    /\ Idle(c)
    /\ IF ~JoinedRow(approval_id)
       THEN Return(c, "dashboard_approve_action", "not_found", Null)
       ELSE IF audit_logs[approval_id].status # "pending"
            THEN Return(c, "dashboard_approve_action", "invalid_state",
                        audit_logs[approval_id].status)
            ELSE Call(c, "dashboard_approve_action", approval_id, approved_by,
                      "dashboard_execute")
    /\ UNCHANGED <<store, now, history>>

\* lines 494-508: _execute_action simulates the action; nothing is stored
dashboard_approve_action_execute(c) ==
    /\ pc[c] = "dashboard_execute"
    /\ executed' = [executed EXCEPT ![op[c].id] = @ + 1]
    /\ Goto(c, "dashboard_write")
    /\ UNCHANGED <<store, now, gated, emergency, rejected_ok, swept,
                   incident_updates>>

\* UPDATE audit_logs SET status = 'success', result, human_approved = TRUE,
\* approved_by, approved_at = NOW(), completed_at = NOW() WHERE id = %s
ApprovedRow(logs, approval_id, approved_by, t) ==
    [logs EXCEPT ![approval_id].status = "success",
                 ![approval_id].result = "simulated",
                 ![approval_id].human_approved = TRUE,
                 ![approval_id].approved_by = approved_by,
                 ![approval_id].approved_at = t,
                 ![approval_id].completed_at = t]

\* the write as two statements, of which the second fails
dashboard_approve_action_write_log_only(c) ==
    /\ pc[c] = "dashboard_write"
    /\ audit_logs' = ApprovedRow(audit_logs, op[c].id, op[c].by, now)
    /\ gated' = gated \cup {op[c].id}
    /\ Return(c, "dashboard_approve_action", "error", Null)
    /\ UNCHANGED <<incidents, config_changes, now, executed, emergency,
                   rejected_ok, swept, incident_updates>>

\* lines 511-536: one statement, WITH updated_log AS (UPDATE audit_logs
\* ...) UPDATE incidents SET status = 'resolved' ..., on a connection in
\* autocommit mode; lines 540-547: the response
dashboard_approve_action_write(c) ==
    /\ pc[c] = "dashboard_write"
    /\ audit_logs' = ApprovedRow(audit_logs, op[c].id, op[c].by, now)
    /\ incidents' = update_incident(incidents, audit_logs[op[c].id].incident_id,
                                    "resolved")
    /\ gated' = gated \cup {op[c].id}
    /\ incident_updates' = [incident_updates EXCEPT ![op[c].id] = @ + 1]
    /\ Return(c, "dashboard_approve_action", "approved_and_executed", Null)
    /\ UNCHANGED <<config_changes, now, executed, emergency, rejected_ok, swept>>

\* lines 511-538: the statement fails; it changes nothing and the
\* exception leaves the handler
dashboard_approve_action_write_fails(c) ==
    /\ pc[c] = "dashboard_write"
    /\ Return(c, "dashboard_approve_action", "error", Null)
    /\ UNCHANGED <<store, now, history>>

dashboard_approve_action(c) ==
    \/ \E id \in EntryIds, by \in Operators : dashboard_approve_action_select(c, id, by)
    \/ dashboard_approve_action_execute(c)
    \/ dashboard_approve_action_write(c)
    \/ dashboard_approve_action_write_fails(c)

\* lines 551-567: UPDATE audit_logs SET status = 'rejected', error_message,
\* completed_at = NOW() WHERE id = %s AND status = 'pending'
dashboard_reject_action(c, approval_id) ==
    /\ Idle(c)
    /\ audit_logs' =
          IF approval_id \in DOMAIN audit_logs /\ audit_logs[approval_id].status = "pending"
          THEN [audit_logs EXCEPT ![approval_id].status = "rejected",
                                  ![approval_id].error_message = "Rejected by judge",
                                  ![approval_id].completed_at = now]
          ELSE audit_logs
    /\ Return(c, "dashboard_reject_action", "rejected", Null)
    /\ UNCHANGED <<incidents, config_changes, now, history>>

DashboardNext ==
    \/ \E c \in Calls : list_approvals(c)
    \/ \E c \in Calls : dashboard_approve_action(c)
    \/ \E c \in Calls, id \in EntryIds : dashboard_reject_action(c, id)
    \/ \E c \in Calls : cleanup_stale_data(c)

DashboardSpec == DashboardInit /\ [][DashboardNext]_vars

\* C40: the dashboard's approve writes the entry's success and the
\* incident's resolution in one atomic statement: in every reachable
\* state, also after a failed call, an entry the endpoint has marked
\* success has its incident resolved, no incident was resolved for an
\* entry that is still pending, and the endpoint has written both rows
\* or neither.
C40_ApproveWritesEntryAndIncidentTogether ==
    \A id \in DOMAIN audit_logs :
       /\ (id \in gated /\ audit_logs[id].status = "success")
             => incidents[audit_logs[id].incident_id].status = "resolved"
       /\ incident_updates[id] > 0 => audit_logs[id].status # "pending"
       /\ id \in gated <=> incident_updates[id] > 0

\* one approve call has failed at its write and another has gone through:
\* entry 1 is success with its incident resolved, entry 2 is still
\* pending with its incident open
C40_Witness ==
    /\ executed[1] = 1
    /\ executed[2] = 1
    /\ audit_logs[1].status = "success"
    /\ audit_logs[1].human_approved
    /\ incidents[1].status = "resolved"
    /\ audit_logs[2].status = "pending"
    /\ incidents[2].status = "open"
    /\ \A c \in Calls : pc[c] = "done"

====
